---------------------------- MODULE Spec2Model ----------------------------
(***************************************************************************)
(* Model of the Drive -> S3 "silver" ETL (etl/glue_etl_google_drive_to_s3) *)
(* and of the Athena dashboard (streamlit_app/app.py).                     *)
(*                                                                         *)
(* Strings that the code transforms (file names, storage keys) are         *)
(* sequences of one-character strings, so that lower() and replace() are   *)
(* computed.  A table cell is <<kind, n, s>>: a number (kind "num", value  *)
(* n in sixteenths, which keeps the medians, the quartiles and the         *)
(* 1.5 * IQR fences of whole-number inputs exact), a string (kind "str",   *)
(* text s) or a missing value (kind "nan").  A DataFrame is [dtypes,       *)
(* rows]: the dtype of each column ("num" or "obj") and the rows in order. *)
(***************************************************************************)
EXTENDS Integers, Sequences, FiniteSets, TLC

\* ------------------------------------------------------------------------
\* Bounds of the model
\* ------------------------------------------------------------------------
MaxFiles == 2
\* number of ETL runs (process invocations) explored
MaxRuns == 2
\* rows of a table handed directly to clean_dataframe
MaxRows == 3
\* polls of one Athena query that are counted (the loop itself is unbounded)
MaxPolls == 2

\* ------------------------------------------------------------------------
\* Generic helpers
\* ------------------------------------------------------------------------
Min(a, b) == IF a <= b THEN a ELSE b

Max(a, b) == IF a >= b THEN a ELSE b

Range(s) == {s[i] : i \in 1..Len(s)}

RECURSIVE SeqsUpTo(_, _)
SeqsUpTo(S, n) ==
  IF n = 0 THEN {<<>>}
  ELSE LET shorter == SeqsUpTo(S, n - 1)
       IN  shorter \cup {Append(s, x) : s \in {t \in shorter : Len(t) = n - 1}, x \in S}

RECURSIVE Insert(_, _)
Insert(x, s) ==
  IF s = <<>> THEN <<x>>
  ELSE IF x <= Head(s) THEN <<x>> \o s
  ELSE <<Head(s)>> \o Insert(x, Tail(s))

RECURSIVE Sort(_)
Sort(s) == IF s = <<>> THEN <<>> ELSE Insert(Head(s), Sort(Tail(s)))

\* ------------------------------------------------------------------------
\* Configuration (module level of the ETL script)
\* ------------------------------------------------------------------------
\* os.getenv("SILVER_PREFIX", "datasets/"): the default
SILVER_PREFIX == <<"d","a","t","a","s","e","t","s","/">>

EXPECTED_FILES ==
  <<
    << <<"f","y","_","2","0","2","4","_","s","n","f","_","v","b","p","_","a","g","g","r","e","g","a","t","e","_","p","e","r","f","o","r","m","a","n","c","e",".","c","s","v">>,
       <<"f","y","_","2","0","2","4","_","s","n","f","_","v","b","p","_","a","g","g","r","e","g","a","t","e","_","p","e","r","f","o","r","m","a","n","c","e","_","p","a","r","q","u","e","t">> >>,
    << <<"f","y","_","2","0","2","4","_","s","n","f","_","v","b","p","_","f","a","c","i","l","i","t","y","_","p","e","r","f","o","r","m","a","n","c","e",".","c","s","v">>,
       <<"f","y","_","2","0","2","4","_","s","n","f","_","v","b","p","_","f","a","c","i","l","i","t","y","_","p","e","r","f","o","r","m","a","n","c","e","_","p","a","r","q","u","e","t">> >>,
    << <<"n","h","_","c","i","t","a","t","i","o","n","d","e","s","c","r","i","p","t","i","o","n","s","_","o","c","t","2","0","2","4",".","c","s","v">>,
       <<"n","h","_","c","i","t","a","t","i","o","n","d","e","s","c","r","i","p","t","i","o","n","s","_","o","c","t","2","0","2","4","_","p","a","r","q","u","e","t">> >>,
    << <<"n","h","_","f","i","r","e","s","a","f","e","t","y","c","i","t","a","t","i","o","n","s","_","o","c","t","2","0","2","4",".","c","s","v">>,
       <<"n","h","_","f","i","r","e","s","a","f","e","t","y","c","i","t","a","t","i","o","n","s","_","o","c","t","2","0","2","4","_","p","a","r","q","u","e","t">> >>,
    << <<"n","h","_","h","e","a","l","t","h","c","i","t","a","t","i","o","n","s","_","o","c","t","2","0","2","4",".","c","s","v">>,
       <<"n","h","_","h","e","a","l","t","h","c","i","t","a","t","i","o","n","s","_","o","c","t","2","0","2","4","_","p","a","r","q","u","e","t">> >>,
    << <<"n","h","_","h","l","t","h","i","n","s","p","e","c","c","u","t","p","o","i","n","t","s","s","t","a","t","e","_","o","c","t","2","0","2","4",".","c","s","v">>,
       <<"n","h","_","h","l","t","h","i","n","s","p","e","c","c","u","t","p","o","i","n","t","s","s","t","a","t","e","_","o","c","t","2","0","2","4","_","p","a","r","q","u","e","t">> >>,
    << <<"n","h","_","c","o","v","i","d","v","a","x","a","v","e","r","a","g","e","s","_","2","0","2","4","1","0","2","7",".","c","s","v">>,
       <<"n","h","_","c","o","v","i","d","v","a","x","a","v","e","r","a","g","e","s","_","2","0","2","4","1","0","2","7","_","p","a","r","q","u","e","t">> >>,
    << <<"n","h","_","c","o","v","i","d","v","a","x","p","r","o","v","i","d","e","r","_","2","0","2","4","1","0","2","7",".","c","s","v">>,
       <<"n","h","_","c","o","v","i","d","v","a","x","p","r","o","v","i","d","e","r","_","2","0","2","4","1","0","2","7","_","p","a","r","q","u","e","t">> >>,
    << <<"n","h","_","d","a","t","a","c","o","l","l","e","c","t","i","o","n","i","n","t","e","r","v","a","l","s","_","o","c","t","2","0","2","4",".","c","s","v">>,
       <<"n","h","_","d","a","t","a","c","o","l","l","e","c","t","i","o","n","i","n","t","e","r","v","a","l","s","_","o","c","t","2","0","2","4","_","p","a","r","q","u","e","t">> >>,
    << <<"n","h","_","s","u","r","v","e","y","d","a","t","e","s","_","o","c","t","2","0","2","4",".","c","s","v">>,
       <<"n","h","_","s","u","r","v","e","y","d","a","t","e","s","_","o","c","t","2","0","2","4","_","p","a","r","q","u","e","t">> >>,
    << <<"n","h","_","s","u","r","v","e","y","s","u","m","m","a","r","y","_","o","c","t","2","0","2","4",".","c","s","v">>,
       <<"n","h","_","s","u","r","v","e","y","s","u","m","m","a","r","y","_","o","c","t","2","0","2","4","_","p","a","r","q","u","e","t">> >>,
    << <<"n","h","_","o","w","n","e","r","s","h","i","p","_","o","c","t","2","0","2","4",".","c","s","v">>,
       <<"n","h","_","o","w","n","e","r","s","h","i","p","_","o","c","t","2","0","2","4","_","p","a","r","q","u","e","t">> >>,
    << <<"n","h","_","p","e","n","a","l","t","i","e","s","_","o","c","t","2","0","2","4",".","c","s","v">>,
       <<"n","h","_","p","e","n","a","l","t","i","e","s","_","o","c","t","2","0","2","4","_","p","a","r","q","u","e","t">> >>,
    << <<"n","h","_","p","r","o","v","i","d","e","r","i","n","f","o","_","o","c","t","2","0","2","4",".","c","s","v">>,
       <<"n","h","_","p","r","o","v","i","d","e","r","i","n","f","o","_","o","c","t","2","0","2","4","_","p","a","r","q","u","e","t">> >>,
    << <<"n","h","_","q","u","a","l","i","t","y","m","s","r","_","c","l","a","i","m","s","_","o","c","t","2","0","2","4",".","c","s","v">>,
       <<"n","h","_","q","u","a","l","i","t","y","m","s","r","_","c","l","a","i","m","s","_","o","c","t","2","0","2","4","_","p","a","r","q","u","e","t">> >>,
    << <<"n","h","_","q","u","a","l","i","t","y","m","s","r","_","m","d","s","_","o","c","t","2","0","2","4",".","c","s","v">>,
       <<"n","h","_","q","u","a","l","i","t","y","m","s","r","_","m","d","s","_","o","c","t","2","0","2","4","_","p","a","r","q","u","e","t">> >>,
    << <<"n","h","_","s","t","a","t","e","u","s","a","v","e","r","a","g","e","s","_","o","c","t","2","0","2","4",".","c","s","v">>,
       <<"n","h","_","s","t","a","t","e","u","s","a","v","e","r","a","g","e","s","_","o","c","t","2","0","2","4","_","p","a","r","q","u","e","t">> >>,
    << <<"s","k","i","l","l","e","d","_","n","u","r","s","i","n","g","_","f","a","c","i","l","i","t","y","_","q","u","a","l","i","t","y","_","r","e","p","o","r","t","i","n","g","_","p","r","o","g","r","a","m","_","n","a","t","i","o","n","a","l","_","d","a","t","a","_","o","c","t","2","0","2","4",".","c","s","v">>,
       <<"s","k","i","l","l","e","d","_","n","u","r","s","i","n","g","_","f","a","c","i","l","i","t","y","_","q","u","a","l","i","t","y","_","r","e","p","o","r","t","i","n","g","_","p","r","o","g","r","a","m","_","n","a","t","i","o","n","a","l","_","d","a","t","a","_","o","c","t","2","0","2","4","_","p","a","r","q","u","e","t">> >>,
    << <<"s","k","i","l","l","e","d","_","n","u","r","s","i","n","g","_","f","a","c","i","l","i","t","y","_","q","u","a","l","i","t","y","_","r","e","p","o","r","t","i","n","g","_","p","r","o","g","r","a","m","_","p","r","o","v","i","d","e","r","_","d","a","t","a","_","o","c","t","2","0","2","4",".","c","s","v">>,
       <<"s","k","i","l","l","e","d","_","n","u","r","s","i","n","g","_","f","a","c","i","l","i","t","y","_","q","u","a","l","i","t","y","_","r","e","p","o","r","t","i","n","g","_","p","r","o","g","r","a","m","_","p","r","o","v","i","d","e","r","_","d","a","t","a","_","o","c","t","2","0","2","4","_","p","a","r","q","u","e","t">> >>,
    << <<"s","w","i","n","g","_","b","e","d","_","s","n","f","_","d","a","t","a","_","o","c","t","2","0","2","4",".","c","s","v">>,
       <<"s","w","i","n","g","_","b","e","d","_","s","n","f","_","d","a","t","a","_","o","c","t","2","0","2","4","_","p","a","r","q","u","e","t">> >>
  >>

\* ------------------------------------------------------------------------
\* File name -> storage key (main, lines 223 and 231-236)
\* ------------------------------------------------------------------------
UpperCase == <<"A","B","C","D","E","F","G","H","I","J","K","L","M",
               "N","O","P","Q","R","S","T","U","V","W","X","Y","Z">>

LowerCase == <<"a","b","c","d","e","f","g","h","i","j","k","l","m",
               "n","o","p","q","r","s","t","u","v","w","x","y","z">>

\* str.lower() on one character
LowerChar(c) ==
  IF \E i \in 1..Len(UpperCase) : UpperCase[i] = c
  THEN LowerCase[CHOOSE i \in 1..Len(UpperCase) : UpperCase[i] = c]
  ELSE c

\* str.lower()
Lower(name) == [i \in 1..Len(name) |-> LowerChar(name[i])]

DotCsv == <<".","c","s","v">>

UnderParquet == <<"_","p","a","r","q","u","e","t">>

StartsWith(s, p) == Len(s) >= Len(p) /\ SubSeq(s, 1, Len(p)) = p

\* str.replace(old, new): every non-overlapping occurrence, left to right
RECURSIVE Replace(_, _, _)
Replace(s, old, new) ==
  IF s = <<>> THEN <<>>
  ELSE IF StartsWith(s, old)
       THEN new \o Replace(SubSeq(s, Len(old) + 1, Len(s)), old, new)
       ELSE <<Head(s)>> \o Replace(Tail(s), old, new)

InExpectedFiles(lname) == \E i \in 1..Len(EXPECTED_FILES) : EXPECTED_FILES[i][1] = lname

ExpectedFilesAt(lname) ==
  EXPECTED_FILES[CHOOSE i \in 1..Len(EXPECTED_FILES) : EXPECTED_FILES[i][1] = lname][2]

\* lines 231-234
ParquetName(file_name) ==
  LET file_name_lower == Lower(file_name)
  IN  IF InExpectedFiles(file_name_lower)
      THEN ExpectedFilesAt(file_name_lower)
      ELSE Replace(file_name_lower, DotCsv, UnderParquet)

\* line 236
KeyOf(file_name) == SILVER_PREFIX \o ParquetName(file_name)

\* ------------------------------------------------------------------------
\* Cells and DataFrames
\* ------------------------------------------------------------------------
NaN == <<"nan", 0, "">>

Num(n) == <<"num", n, "">>

Str(s) == <<"str", 0, s>>

IsNull(cell) == cell[1] = "nan"

\* pd.DataFrame(): no columns, no rows
EmptyFrame == [dtypes |-> <<>>, rows |-> <<>>]

NumCols(df) == Len(df.dtypes)

\* DataFrame.empty: any axis of length 0
IsEmpty(df) == Len(df.rows) = 0 \/ Len(df.dtypes) = 0

\* the cells of column c, in row order
Column(df, c) == [i \in 1..Len(df.rows) |-> df.rows[i][c]]

NotNull(cell) == ~IsNull(cell)

\* the numbers of a numeric column, missing cells skipped, ascending
SortedValues(col) ==
  LET present == SelectSeq(col, NotNull)
  IN  Sort([i \in 1..Len(present) |-> present[i][2]])

\* the rows of a table as a set
RowSet(df) == Range(df.rows)

HasDuplicates(df) == \E i, j \in 1..Len(df.rows) : i < j /\ df.rows[i] = df.rows[j]

\* ------------------------------------------------------------------------
\* pd.read_csv (line 228).  A CSV text is the sequence of its data lines,
\* each a sequence of fields; every file of the model carries the same
\* header line, which is left implicit.
\* ------------------------------------------------------------------------
\* the number a field parses to, whole numbers only
Digits == <<"0", "1", "2", "3", "4", "5", "6", "7", "8", "9">>

IsNumberField(f) == \E i \in 1..Len(Digits) : Digits[i] = f

Sixteenths(n) == 16 * n

ParseNumber(f) == Sixteenths((CHOOSE i \in 1..Len(Digits) : Digits[i] = f) - 1)

\* dtype inference: a column whose non-empty fields are all numbers is
\* numeric (an entirely empty column is float64), any other is object
InferDtype(text, c) ==
  IF \A i \in 1..Len(text) : text[i][c] = "" \/ IsNumberField(text[i][c])
  THEN "num" ELSE "obj"

ParseField(f, dtype) ==
  IF f = "" THEN NaN
  ELSE IF dtype = "num" THEN Num(ParseNumber(f))
  ELSE Str(f)

ParseColumns(text, ncols) ==
  LET dt == [c \in 1..ncols |-> InferDtype(text, c)]
  IN  [dtypes |-> dt,
       rows   |-> [i \in 1..Len(text) |-> [c \in 1..ncols |-> ParseField(text[i][c], dt[c])]]]

\* the header of every file of the model names two columns
read_csv(text) == ParseColumns(text, 2)

\* ------------------------------------------------------------------------
\* clean_dataframe (lines 152-185)
\* ------------------------------------------------------------------------
\* Series.median(): the middle of the present values, NaN when there is none
Median(col) ==
  LET v == SortedValues(col)
      n == Len(v)
  IN  IF n = 0 THEN NaN
      ELSE IF n % 2 = 1 THEN Num(v[(n + 1) \div 2])
      ELSE Num((v[n \div 2] + v[n \div 2 + 1]) \div 2)

\* the order Series.mode() sorts strings in (code point order)
StringOrder == <<"Unknown", "a", "b", "c", "d">>

Rank(s) == CHOOSE i \in 1..Len(StringOrder) : StringOrder[i] = s

Count(col, cell) == Cardinality({i \in 1..Len(col) : col[i] = cell})

\* Series.mode(): the most frequent present values, sorted ascending
Mode(col) ==
  LET present == {col[i] : i \in {j \in 1..Len(col) : NotNull(col[j])}}
      top     == {x \in present : \A y \in present : Count(col, x) >= Count(col, y)}
      ranks   == Sort(LET RECURSIVE ToSeq(_)
                          ToSeq(S) == IF S = {} THEN <<>>
                                      ELSE LET x == CHOOSE y \in S : TRUE
                                           IN  <<Rank(x[3])>> \o ToSeq(S \ {x})
                      IN  ToSeq(top))
  IN  [i \in 1..Len(ranks) |-> Str(StringOrder[ranks[i]])]

\* lines 161-168: what the missing cells of column c are filled with
FillValue(df, c) ==
  IF df.dtypes[c] = "num"
  THEN Median(Column(df, c))
  ELSE LET mode_vals == Mode(Column(df, c))
       IN  IF Len(mode_vals) > 0 THEN mode_vals[1] ELSE Str("Unknown")

\* lines 157-168: df[col].fillna(value, inplace=True) for every column with
\* a missing cell, as pandas before 3.0 does it (the Series is a view of df)
FillMissing(df) ==
  [df EXCEPT !.rows =
     [i \in 1..Len(df.rows) |->
        [c \in 1..NumCols(df) |->
           IF IsNull(df.rows[i][c]) THEN FillValue(df, c) ELSE df.rows[i][c]]]]

\* DataFrame.drop_duplicates(): the first of each group of equal rows is kept
RECURSIVE DropDuplicateRows(_, _)
DropDuplicateRows(rows, kept) ==
  IF rows = <<>> THEN kept
  ELSE IF Head(rows) \in Range(kept) THEN DropDuplicateRows(Tail(rows), kept)
  ELSE DropDuplicateRows(Tail(rows), Append(kept, Head(rows)))

drop_duplicates(df) == [df EXCEPT !.rows = DropDuplicateRows(df.rows, <<>>)]

\* Series.quantile(k/4), linear interpolation, of ascending values v
Quantile(v, k) ==
  LET n  == Len(v)
      p  == (n - 1) * k
      lo == p \div 4 + 1
      hi == Min(lo + 1, n)
  IN  v[lo] + ((v[hi] - v[lo]) * (p % 4)) \div 4

\* lines 178-183 for one cell of a numeric column with present values v
ClipCell(cell, v) ==
  IF IsNull(cell) \/ Len(v) = 0 THEN cell
  ELSE LET Q1    == Quantile(v, 1)
           Q3    == Quantile(v, 3)
           IQR   == Q3 - Q1
           lower == Q1 - (3 * IQR) \div 2
           upper == Q3 + (3 * IQR) \div 2
       IN  Num(Min(Max(cell[2], lower), upper))

\* lines 176-183: IQR capping of every numeric column
ClipOutliers(df) ==
  [df EXCEPT !.rows =
     [i \in 1..Len(df.rows) |->
        [c \in 1..NumCols(df) |->
           IF df.dtypes[c] = "num"
           THEN ClipCell(df.rows[i][c], SortedValues(Column(df, c)))
           ELSE df.rows[i][c]]]]

clean_dataframe(df) == ClipOutliers(drop_duplicates(FillMissing(df)))

\* ------------------------------------------------------------------------
\* Incremental merge (main, lines 239-245)
\* ------------------------------------------------------------------------
\* line 240: the rows of df_new whose tuple is not a row of df_old
NotInOld(df_new, df_old) ==
  LET Fresh(row) == row \notin RowSet(df_old)
  IN  [df_new EXCEPT !.rows = SelectSeq(df_new.rows, Fresh)]

\* pd.concat([a, b], ignore_index=True) of two tables with the same header
Concat(a, b) ==
  [dtypes |-> [c \in 1..NumCols(a) |->
                 IF a.dtypes[c] = b.dtypes[c] THEN a.dtypes[c] ELSE "obj"],
   rows   |-> a.rows \o b.rows]

\* lines 239-243
MergeFrames(df_old, df_new) ==
  IF ~IsEmpty(df_old)
  THEN Concat(df_old, NotInOld(df_new, df_old))
  ELSE df_new

\* MergeDedup without line 245
MergeWithoutLine245(df_old, df_new) == MergeFrames(df_old, df_new)

\* lines 239-245
MergeDedup(df_old, df_new) == drop_duplicates(MergeFrames(df_old, df_new))

\* ------------------------------------------------------------------------
\* The Drive folder and the bucket: the inputs of the model
\* ------------------------------------------------------------------------
\* "NH_Penalties_Oct2024.csv": an EXPECTED_FILES name in mixed case
NamePenaltiesMixed ==
  <<"N","H","_","P","e","n","a","l","t","i","e","s","_","O","c","t","2","0","2","4",".","c","s","v">>

\* "nh_penalties_oct2024.csv": the same name in lower case
NamePenaltiesLower == Lower(NamePenaltiesMixed)

\* "Extra.CSV": not an EXPECTED_FILES name
NameExtra == <<"E","x","t","r","a",".","C","S","V">>

\* a repeated line
TextRepeated == << <<"1", "a">>, <<"2", "b">>, <<"1", "a">> >>

\* empty fields in both columns, one line shared with TextRepeated
TextMissing == << <<"2", "b">>, <<"", "">>, <<"4", "b">> >>

\* the fifth line is an outlier that IQR capping turns into the first line
TextOutlier == << <<"0", "a">>, <<"0", "b">>, <<"0", "c">>, <<"0", "d">>, <<"7", "a">> >>

\* a column with no value at all
TextEmptyColumn == << <<"", "a">>, <<"", "b">> >>

\* a header and no data line
TextNoRows == << >>

\* the files a folder of the model can hold.  Files 1-3 share one key and so
\* do files 4-6; 7 is a CSV file in the trash and 8 a file that is no CSV.
DriveFiles ==
  << [name |-> NamePenaltiesMixed, text |-> TextRepeated,    listed |-> TRUE],
     [name |-> NamePenaltiesLower, text |-> TextMissing,     listed |-> TRUE],
     [name |-> NamePenaltiesLower, text |-> TextOutlier,     listed |-> TRUE],
     [name |-> NameExtra,          text |-> TextEmptyColumn, listed |-> TRUE],
     [name |-> NameExtra,          text |-> TextNoRows,      listed |-> TRUE],
     [name |-> NameExtra,          text |-> TextRepeated,    listed |-> TRUE],
     [name |-> NameExtra,          text |-> TextMissing,     listed |-> FALSE],
     [name |-> NamePenaltiesMixed, text |-> TextMissing,     listed |-> FALSE] >>

FileIds == 1..Len(DriveFiles)

FileName(id) == DriveFiles[id].name

FileText(id) == DriveFiles[id].text

\* the folders of the model: up to MaxFiles distinct files, in Drive's order
Folders == {s \in SeqsUpTo(FileIds, MaxFiles) : \A i, j \in 1..Len(s) : i # j => s[i] # s[j]}

Keys == {KeyOf(FileName(id)) : id \in FileIds}

RECURSIVE SetToSeq(_)
SetToSeq(S) ==
  IF S = {} THEN <<>>
  ELSE LET x == CHOOSE y \in S : TRUE IN <<x>> \o SetToSeq(S \ {x})

\* The bucket is held as one object per slot, slot i standing for the key
\* KeyList[i]: the keys themselves are computed, and numbered only to be
\* stored.
KeyList == SetToSeq(Keys)

Slots == 1..Len(KeyList)

Slot(key) == CHOOSE i \in Slots : KeyList[i] = key

NoObject == [present |-> FALSE, df |-> EmptyFrame]

Object(df) == [present |-> TRUE, df |-> df]

EmptyBucket == [k \in Slots |-> NoObject]

\* the buckets a first run of the model can find: empty, or holding under one
\* key what an earlier run wrote there from TextMissing
InitialBuckets ==
  {EmptyBucket} \cup
  {[EmptyBucket EXCEPT ![k] = Object(MergeDedup(EmptyFrame, clean_dataframe(read_csv(TextMissing))))] :
     k \in Slots}

\* os.getenv of a required variable: None, "" or a value
EnvValues == {"unset", "empty", "set"}

\* ------------------------------------------------------------------------
\* State
\* ------------------------------------------------------------------------
VARIABLES
  drive,            \* the Drive folder: file ids in the order Drive lists them
  s3,               \* the bucket: slot of the key -> object
  GOOGLE_FOLDER_ID, \* line 17
  SILVER_BUCKET,    \* line 18
  pc,               \* where main() is
  run,              \* ETL runs started so far
  token,            \* line 216
  files,            \* line 217
  idx,              \* line 220
  csv_text,         \* line 227
  df_new,           \* lines 228-229, 240
  df_old,           \* line 238
  df_final,         \* lines 241-245
  log,              \* history: the steps of this run, <<step, idx>>, in order
  writes,           \* history: the slots of the keys put_object was called with in this run
  s3_before,        \* history: the bucket when the current file's iteration began
  s3_run_start,     \* history: the bucket when this run began
  s3_prev_run,      \* history: the bucket the previous run left
  replaced,         \* history: what the last put_object of this run replaced
  prev_completed    \* history: the previous run reached ETL COMPLETED

etlVars == <<drive, s3, GOOGLE_FOLDER_ID, SILVER_BUCKET, pc, run, token, files, idx,
             csv_text, df_new, df_old, df_final, log, writes, s3_before,
             s3_run_start, s3_prev_run, replaced, prev_completed>>

VARIABLES
  c_pc,             \* clean_dataframe alone: "call" before, "returned" after
  c_df,             \* the table it is given
  c_out             \* the table it returns

cleanVars == <<c_pc, c_df, c_out>>

VARIABLES
  d_pc,             \* where the dashboard script is
  tab,              \* the tab whose block runs: 1, 2, 3
  athena,           \* the state Athena holds for the running query execution
  status,           \* line 26: the state the last poll read
  polls,            \* polls of this query, counted up to MaxPolls
  started,          \* history: start_query_execution calls, per tab
  observed,         \* history: the state the loop of each tab's query ended on
  fetched,          \* history: get_query_results was called, per tab
  df_empty,         \* the returned DataFrame's .empty
  shown             \* what each tab displayed

dashVars == <<d_pc, tab, athena, status, polls, started, observed, fetched, df_empty, shown>>

\* ------------------------------------------------------------------------
\* Drive and S3 helpers
\* ------------------------------------------------------------------------
pageSize == 1000

\* IsListedCsv for a query without the mimeType and trashed terms
ListsEveryFile(id) == id \in FileIds

\* line 126: mimeType='text/csv' and trashed=false
IsListedCsv(id) == DriveFiles[id].listed

\* lines 125-131: one request, so the first page of the matching files
list_csv_files(folder) ==
  LET matching == SelectSeq(folder, IsListedCsv)
  IN  SubSeq(matching, 1, Min(Len(matching), pageSize))

\* lines 134-146
download_csv(file_id) == FileText(file_id)

\* lines 188-196: the stored table; an empty DataFrame when the key does not
\* exist (NoSuchKey) and also when get_object or read_parquet fails otherwise
load_existing_parquet(bucket, key, read_fails) ==
  IF bucket[Slot(key)].present /\ ~read_fails THEN bucket[Slot(key)].df ELSE EmptyFrame

\* lines 199-202: put_object replaces the object under the key
write_to_s3(bucket, df, key) == [bucket EXCEPT ![Slot(key)] = Object(df)]

\* ------------------------------------------------------------------------
\* main() (lines 209-248), one action per statement that has an effect
\* ------------------------------------------------------------------------
\* LoopBody with the stored table loaded before the new one is cleaned
LoopBodyLoadBeforeClean == <<"download", "read_csv", "load", "clean", "merge", "upload">>

\* lines 227-246: the statements of the loop body, in order
LoopBody == <<"download", "read_csv", "clean", "load", "merge", "upload">>

StepAfter(step) == LoopBody[(CHOOSE i \in 1..Len(LoopBody) : LoopBody[i] = step) + 1]

\* ConfigMissing that tests GDRIVE_FOLDER_ID alone
FolderIdMissing == GOOGLE_FOLDER_ID # "set"

\* line 212: `not x` holds for None and for ""
ConfigMissing == GOOGLE_FOLDER_ID # "set" \/ SILVER_BUCKET # "set"

CurrentKey == KeyOf(FileName(files[idx]))

EtlStart(folder, bucket) ==
  /\ drive = folder
  /\ s3 = bucket
  /\ GOOGLE_FOLDER_ID = "unset"
  /\ SILVER_BUCKET = "unset"
  /\ pc = "idle"
  /\ run = 0
  /\ token = FALSE
  /\ files = <<>>
  /\ idx = 0
  /\ csv_text = <<>>
  /\ df_new = EmptyFrame
  /\ df_old = EmptyFrame
  /\ df_final = EmptyFrame
  /\ log = <<>>
  /\ writes = <<>>
  /\ s3_before = s3
  /\ s3_run_start = s3
  /\ s3_prev_run = s3
  /\ replaced = NoObject
  /\ prev_completed = FALSE

EtlInit == \E folder \in Folders, bucket \in InitialBuckets : EtlStart(folder, bucket)

\* the ETL is not part of the run: nothing in the folder, nothing stored
EtlParked == EtlStart(<<>>, EmptyBucket)

\* the script is started: lines 16-19 read the environment
Invoke ==
  /\ pc \in {"idle", "done", "crashed", "exit1"}
  /\ run < MaxRuns
  /\ run' = run + 1
  /\ GOOGLE_FOLDER_ID' \in EnvValues
  /\ SILVER_BUCKET' \in EnvValues
  /\ pc' = "main"
  /\ token' = FALSE
  /\ files' = <<>>
  /\ idx' = 0
  /\ csv_text' = <<>>
  /\ df_new' = EmptyFrame
  /\ df_old' = EmptyFrame
  /\ df_final' = EmptyFrame
  /\ log' = <<>>
  /\ writes' = <<>>
  /\ s3_before' = s3
  /\ s3_run_start' = s3
  /\ s3_prev_run' = s3
  /\ replaced' = NoObject
  /\ prev_completed' = (pc = "done")
  /\ UNCHANGED <<cleanVars, dashVars, drive, s3>>

\* lines 212-214
CheckConfig ==
  /\ pc = "main"
  /\ pc' = IF ConfigMissing THEN "exit1" ELSE "auth"
  /\ UNCHANGED <<cleanVars, dashVars, drive, s3, GOOGLE_FOLDER_ID, SILVER_BUCKET, run, token, files, idx,
                 csv_text, df_new, df_old, df_final, log, writes, s3_before,
                 s3_run_start, s3_prev_run, replaced, prev_completed>>

\* line 216
Authenticate ==
  /\ pc = "auth"
  /\ token' = TRUE
  /\ log' = Append(log, <<"auth", 0>>)
  /\ pc' = "list"
  /\ UNCHANGED <<cleanVars, dashVars, drive, s3, GOOGLE_FOLDER_ID, SILVER_BUCKET, run, files, idx,
                 csv_text, df_new, df_old, df_final, writes, s3_before,
                 s3_run_start, s3_prev_run, replaced, prev_completed>>

\* lines 217-220: the listing, then the loop is entered or skipped
ListFiles ==
  /\ pc = "list"
  /\ files' = list_csv_files(drive)
  /\ log' = Append(log, <<"list", 0>>)
  /\ idx' = IF Len(files') > 0 THEN 1 ELSE 0
  /\ pc' = IF Len(files') > 0 THEN LoopBody[1] ELSE "done"
  /\ s3_before' = s3
  /\ UNCHANGED <<cleanVars, dashVars, drive, s3, GOOGLE_FOLDER_ID, SILVER_BUCKET, run, token,
                 csv_text, df_new, df_old, df_final, writes,
                 s3_run_start, s3_prev_run, replaced, prev_completed>>

\* line 227
Download ==
  /\ pc = "download"
  /\ csv_text' = download_csv(files[idx])
  /\ log' = Append(log, <<"download", idx>>)
  /\ pc' = StepAfter("download")
  /\ UNCHANGED <<cleanVars, dashVars, drive, s3, GOOGLE_FOLDER_ID, SILVER_BUCKET, run, token, files, idx,
                 df_new, df_old, df_final, writes, s3_before,
                 s3_run_start, s3_prev_run, replaced, prev_completed>>

\* line 228
ReadCsv ==
  /\ pc = "read_csv"
  /\ df_new' = read_csv(csv_text)
  /\ log' = Append(log, <<"read_csv", idx>>)
  /\ pc' = StepAfter("read_csv")
  /\ UNCHANGED <<cleanVars, dashVars, drive, s3, GOOGLE_FOLDER_ID, SILVER_BUCKET, run, token, files, idx,
                 csv_text, df_old, df_final, writes, s3_before,
                 s3_run_start, s3_prev_run, replaced, prev_completed>>

\* line 229
Clean ==
  /\ pc = "clean"
  /\ df_new' = clean_dataframe(df_new)
  /\ log' = Append(log, <<"clean", idx>>)
  /\ pc' = StepAfter("clean")
  /\ UNCHANGED <<cleanVars, dashVars, drive, s3, GOOGLE_FOLDER_ID, SILVER_BUCKET, run, token, files, idx,
                 csv_text, df_old, df_final, writes, s3_before,
                 s3_run_start, s3_prev_run, replaced, prev_completed>>

\* lines 231-238: the read may fail, which load_existing_parquet swallows
LoadExisting ==
  /\ pc = "load"
  /\ \E read_fails \in BOOLEAN :
       df_old' = load_existing_parquet(s3, CurrentKey, read_fails)
  /\ log' = Append(log, <<"load", idx>>)
  /\ pc' = StepAfter("load")
  /\ UNCHANGED <<cleanVars, dashVars, drive, s3, GOOGLE_FOLDER_ID, SILVER_BUCKET, run, token, files, idx,
                 csv_text, df_new, df_final, writes, s3_before,
                 s3_run_start, s3_prev_run, replaced, prev_completed>>

\* lines 239-245.  Line 240 rebinds df_new; in the else branch df_final is
\* df_new itself, so the in-place drop_duplicates of line 245 changes both.
Merge ==
  /\ pc = "merge"
  /\ df_final' = MergeDedup(df_old, df_new)
  /\ df_new' = IF ~IsEmpty(df_old) THEN NotInOld(df_new, df_old) ELSE df_final'
  /\ log' = Append(log, <<"merge", idx>>)
  /\ pc' = StepAfter("merge")
  /\ UNCHANGED <<cleanVars, dashVars, drive, s3, GOOGLE_FOLDER_ID, SILVER_BUCKET, run, token, files, idx,
                 csv_text, df_old, writes, s3_before,
                 s3_run_start, s3_prev_run, replaced, prev_completed>>

\* line 246, then the next iteration or line 248
Upload ==
  /\ pc = "upload"
  /\ s3' = write_to_s3(s3, df_final, CurrentKey)
  /\ writes' = Append(writes, Slot(CurrentKey))
  /\ replaced' = s3_before[Slot(CurrentKey)]
  /\ log' = Append(log, <<"upload", idx>>)
  /\ IF idx < Len(files)
     THEN /\ idx' = idx + 1
          /\ pc' = LoopBody[1]
          /\ s3_before' = s3'
     ELSE /\ idx' = idx
          /\ pc' = "done"
          /\ s3_before' = s3_before
  /\ UNCHANGED <<cleanVars, dashVars, drive, GOOGLE_FOLDER_ID, SILVER_BUCKET, run, token, files,
                 csv_text, df_new, df_old, df_final,
                 s3_run_start, s3_prev_run, prev_completed>>

\* the steps main() lets an exception escape from: nothing catches it, the
\* process ends with the traceback
RaisingSteps == {"auth", "list", "download", "read_csv", "clean", "upload"}

\* Raise for a loop body wrapped in try/except/continue: the failing file is
\* skipped and the run goes on with the next one
RaiseSkipsFile ==
  /\ pc \in RaisingSteps
  /\ log' = Append(log, <<"raise", idx>>)
  /\ IF idx >= 1 /\ idx < Len(files)
     THEN idx' = idx + 1 /\ pc' = "download"
     ELSE idx' = idx /\ pc' = "crashed"
  /\ UNCHANGED <<cleanVars, dashVars, drive, s3, GOOGLE_FOLDER_ID, SILVER_BUCKET, run, token,
                 files, csv_text, df_new, df_old, df_final, writes, s3_before,
                 s3_run_start, s3_prev_run, replaced, prev_completed>>

Raise ==
  /\ pc \in RaisingSteps
  /\ log' = Append(log, <<"raise", idx>>)
  /\ pc' = "crashed"
  /\ UNCHANGED <<cleanVars, dashVars, drive, s3, GOOGLE_FOLDER_ID, SILVER_BUCKET, run, token, files, idx,
                 csv_text, df_new, df_old, df_final, writes, s3_before,
                 s3_run_start, s3_prev_run, replaced, prev_completed>>

\* ------------------------------------------------------------------------
\* clean_dataframe on its own: every table of up to MaxRows rows
\* ------------------------------------------------------------------------
NumericCells == {NaN, Num(Sixteenths(0)), Num(Sixteenths(1)), Num(Sixteenths(4))}

ObjectCells == {NaN, Str("a"), Str("b")}

CellsOf(dtype) == IF dtype = "num" THEN NumericCells ELSE ObjectCells

FrameDtypes == {<<"num", "obj">>, <<"num", "num">>, <<"obj", "obj">>}

RowsOf(dtypes) == {<<x, y>> : x \in CellsOf(dtypes[1]), y \in CellsOf(dtypes[2])}

CleanParked == c_pc = "call" /\ c_df = EmptyFrame /\ c_out = EmptyFrame

\* the table is any of up to MaxRows rows whose cells fit its columns' dtypes
CleanInit ==
  /\ c_pc = "call"
  /\ \E d \in FrameDtypes, n \in 0..MaxRows :
       \E r \in [1..n -> RowsOf(d)] : c_df = [dtypes |-> d, rows |-> r]
  /\ c_out = EmptyFrame

CallClean ==
  /\ c_pc = "call"
  /\ c_out' = clean_dataframe(c_df)
  /\ c_pc' = "returned"
  /\ UNCHANGED <<c_df, dashVars, etlVars>>

\* ------------------------------------------------------------------------
\* The dashboard (streamlit_app/app.py)
\* ------------------------------------------------------------------------
Tabs == 1..3

\* line 27
IsTerminal(state) == state \in {"SUCCEEDED", "FAILED", "CANCELLED"}

\* ReturnsEmptyFrame that tests for FAILED alone
ReturnsEmptyOnFailedOnly(state) == state = "FAILED"

\* line 31
ReturnsEmptyFrame(state) == state # "SUCCEEDED"

\* lines 98, 151, 186: what a tab shows for an empty table
EmptyMessage(t) == IF t = 3 THEN "info" ELSE "warning"

DashStart ==
  /\ d_pc = "call"
  /\ tab = 1
  /\ athena = "NONE"
  /\ status = "NONE"
  /\ polls = 0
  /\ started = [t \in Tabs |-> 0]
  /\ observed = [t \in Tabs |-> "NONE"]
  /\ fetched = [t \in Tabs |-> FALSE]
  /\ df_empty = TRUE
  /\ shown = [t \in Tabs |-> "nothing"]

\* lines 16-23 (called from lines 83, 127, 172)
StartQuery ==
  /\ d_pc = "call"
  /\ athena' = "QUEUED"
  /\ started' = [started EXCEPT ![tab] = @ + 1]
  /\ status' = "NONE"
  /\ polls' = 0
  /\ d_pc' = "poll"
  /\ UNCHANGED <<tab, observed, fetched, df_empty, shown, cleanVars, etlVars>>

\* Athena, not the script: the query execution moves on
AthenaProgress ==
  /\ athena \in {"QUEUED", "RUNNING"}
  /\ athena' \in IF athena = "QUEUED"
                 THEN {"RUNNING", "FAILED", "CANCELLED"}
                 ELSE {"SUCCEEDED", "FAILED", "CANCELLED"}
  /\ UNCHANGED <<d_pc, tab, status, polls, started, observed, fetched, df_empty, shown,
                 cleanVars, etlVars>>

\* lines 25-29: one turn of the loop
Poll ==
  /\ d_pc = "poll"
  /\ status' = athena
  /\ polls' = Min(polls + 1, MaxPolls)
  /\ IF IsTerminal(status')
     THEN /\ d_pc' = "check"
          /\ observed' = [observed EXCEPT ![tab] = status']
     ELSE /\ d_pc' = "poll"
          /\ observed' = observed
  /\ UNCHANGED <<tab, athena, started, fetched, df_empty, shown, cleanVars, etlVars>>

\* lines 31-32
ReturnEmpty ==
  /\ d_pc = "check"
  /\ ReturnsEmptyFrame(status)
  /\ df_empty' = TRUE
  /\ d_pc' = "render"
  /\ UNCHANGED <<tab, athena, status, polls, started, observed, fetched, shown,
                 cleanVars, etlVars>>

\* lines 34-42: the header row, then the data rows there are
FetchResults ==
  /\ d_pc = "check"
  /\ ~ReturnsEmptyFrame(status)
  /\ fetched' = [fetched EXCEPT ![tab] = TRUE]
  /\ \E data_rows \in 0..1 : df_empty' = (data_rows = 0)
  /\ d_pc' = "render"
  /\ UNCHANGED <<tab, athena, status, polls, started, observed, shown,
                 cleanVars, etlVars>>

\* lines 85-98, 129-151, 174-186, then the next tab's block or the end
Render ==
  /\ d_pc = "render"
  /\ shown' = [shown EXCEPT ![tab] = IF ~df_empty THEN "data" ELSE EmptyMessage(tab)]
  /\ IF tab < 3
     THEN tab' = tab + 1 /\ d_pc' = "call"
     ELSE tab' = tab /\ d_pc' = "end"
  /\ UNCHANGED <<athena, status, polls, started, observed, fetched, df_empty,
                 cleanVars, etlVars>>

\* ------------------------------------------------------------------------
\* Specifications
\* ------------------------------------------------------------------------
vars == <<etlVars, cleanVars, dashVars>>

\* the ETL, run up to MaxRuns times over one folder
Init == EtlInit /\ CleanParked /\ DashStart

Next ==
  \/ Invoke
  \/ CheckConfig
  \/ Authenticate
  \/ ListFiles
  \/ Download
  \/ ReadCsv
  \/ Clean
  \/ LoadExisting
  \/ Merge
  \/ Upload
  \/ Raise

Spec == Init /\ [][Next]_vars

\* clean_dataframe applied to one table
CleanSpecInit == EtlParked /\ CleanInit /\ DashStart

CleanSpecNext == CallClean

CleanSpec == CleanSpecInit /\ [][CleanSpecNext]_vars

\* one run of the dashboard script.  The script is one thread that runs on
\* while a step is possible, and Athena is taken to bring every query
\* execution to a terminal state.
DashInit == EtlParked /\ CleanParked /\ DashStart

DashNext ==
  \/ StartQuery
  \/ AthenaProgress
  \/ Poll
  \/ ReturnEmpty
  \/ FetchResults
  \/ Render

DashSpec ==
  /\ DashInit
  /\ [][DashNext]_vars
  /\ WF_vars(StartQuery)
  /\ WF_vars(Poll)
  /\ WF_vars(ReturnEmpty)
  /\ WF_vars(FetchResults)
  /\ WF_vars(Render)
  /\ WF_vars(AthenaProgress)

\* ------------------------------------------------------------------------
\* Properties
\* ------------------------------------------------------------------------
LastEvent == log[Len(log)]

\* the last step of this run was the put_object of a file
JustUploaded == Len(log) > 0 /\ LastEvent[1] = "upload"

\* the slot of the key written last
UploadedSlot == writes[Len(writes)]

\* the cleaned table of the file downloaded last
CleanedNew == clean_dataframe(read_csv(csv_text))

\* the non-trashed CSV files of the folder, in Drive's order
NonTrashedCsv(id) == DriveFiles[id].listed

FolderCsvFiles == SelectSeq(drive, NonTrashedCsv)

\* the files one request returns: the first page of them
ListedPage == SubSeq(FolderCsvFiles, 1, Min(Len(FolderCsvFiles), pageSize))

WritesTo(key) == Cardinality({j \in 1..Len(writes) : writes[j] = Slot(key)})

\* C1: when a file has just been written and a table with at least one row
\* was stored under its key before the file was processed, the rows of the
\* written object are the rows of that table together with the cleaned rows
\* of the new CSV.
C1_MergeKeepsStoredRows ==
  (JustUploaded /\ replaced.present /\ Len(replaced.df.rows) > 0)
    => RowSet(s3[UploadedSlot].df) = RowSet(replaced.df) \cup RowSet(CleanedNew)

\* C2: no object in the bucket holds the same row twice, after a first load
\* and after a merge, in every run.
C2_NoDuplicateRows == \A k \in Slots : s3[k].present => ~HasDuplicates(s3[k].df)

\* C2 witness: in a second run a file whose cleaned table holds a row twice
\* (the capped outlier) has been merged into a stored table with rows.
C2_Witness ==
  /\ run = 2
  /\ JustUploaded
  /\ replaced.present
  /\ ~IsEmpty(replaced.df)
  /\ HasDuplicates(CleanedNew)

FileSteps(i) ==
  << <<"download", i>>, <<"read_csv", i>>, <<"clean", i>>, <<"load", i>>, <<"merge", i>>, <<"upload", i>> >>

RECURSIVE StepsUpTo(_)
StepsUpTo(n) == IF n = 0 THEN <<>> ELSE StepsUpTo(n - 1) \o FileSteps(n)

LinearOrder == << <<"auth", 0>>, <<"list", 0>> >> \o StepsUpTo(Len(files))

IsPrefix(s, t) == Len(s) <= Len(t) /\ SubSeq(t, 1, Len(s)) = s

\* the log without the raise that ended the run, if one did
StepsDone == IF Len(log) > 0 /\ LastEvent[1] = "raise" THEN SubSeq(log, 1, Len(log) - 1) ELSE log

\* C4: the steps of a run are a prefix of: authenticate, list, then for each
\* listed file in listing order download, parse, clean, load the existing
\* object, merge, upload.  The listing is the folder's first page in Drive's order, the
\* step the run is about to take is the next of that order (so one file is
\* in progress at a time, and file i + 1 begins after the upload of file i)
\* and the text in hand is the text of the file in progress.
C4_LinearPipeline ==
  /\ IsPrefix(StepsDone, LinearOrder)
  /\ Len(StepsDone) >= 2 => files = ListedPage
  /\ pc \in {"download", "read_csv", "clean", "load", "merge", "upload"}
       => /\ Len(StepsDone) < Len(LinearOrder)
          /\ LinearOrder[Len(StepsDone) + 1] = <<pc, idx>>
  /\ pc \in {"read_csv", "clean", "load", "merge", "upload"}
       => csv_text = FileText(files[idx])
  /\ pc = "done" => StepsDone = LinearOrder

\* C4 witness: a run over two files has reached its end.
C4_Witness == pc = "done" /\ Len(files) = 2 /\ Len(log) = 14

\* C5: an exception ends the run where it is raised: it is the last step of
\* the run and is raised once, no later step of the loop is possible, no
\* file after the failing one has a step, the bucket is as it was when the
\* failing file's iteration began, and one write was made per earlier file.
C5_NoRecovery ==
  \A j \in 1..Len(log) :
    log[j][1] = "raise" =>
      /\ j = Len(log)
      /\ pc = "crashed"
      /\ ~ENABLED (Authenticate \/ ListFiles \/ Download \/ ReadCsv \/ Clean
                     \/ LoadExisting \/ Merge \/ Upload \/ Raise)
      /\ \A m \in 1..Len(log) : log[m][2] <= log[j][2]
      /\ s3 = s3_before
      /\ log[j][2] >= 1 => Len(writes) = log[j][2] - 1

\* C5 witness: the upload of the second file raised after the first file
\* was written.
C5_Witness ==
  /\ pc = "crashed"
  /\ Len(writes) = 1
  /\ Len(log) >= 2
  /\ log[Len(log) - 1] = <<"merge", 2>>

\* C6: while a required variable is unset or empty the run is at its start
\* or has exited with status 1, and has done nothing: no token, no listing,
\* no download, no read of the bucket and no write to it.
C6_MissingConfigNoEffect ==
  (run >= 1 /\ (GOOGLE_FOLDER_ID \in {"unset", "empty"} \/ SILVER_BUCKET \in {"unset", "empty"}))
    => /\ pc \in {"main", "exit1"}
       /\ ~token
       /\ log = <<>>
       /\ files = <<>>
       /\ csv_text = <<>>
       /\ writes = <<>>
       /\ s3 = s3_run_start

\* C6 witness: a run has exited with status 1 for an empty SILVER_BUCKET_NAME
\* alone, over a bucket that holds an object.
C6_Witness ==
  /\ pc = "exit1"
  /\ GOOGLE_FOLDER_ID = "set"
  /\ SILVER_BUCKET = "empty"
  /\ s3 # EmptyBucket

\* C9: when a run ends that follows a completed run over the same folder,
\* every key holds the same set of rows, and as many rows, as the earlier
\* run left there.
C9_RerunIdempotent ==
  (pc = "done" /\ prev_completed) =>
    \A k \in Slots :
      /\ s3[k].present = s3_prev_run[k].present
      /\ RowSet(s3[k].df) = RowSet(s3_prev_run[k].df)
      /\ Len(s3[k].df.rows) = Len(s3_prev_run[k].df.rows)

\* the key the claim describes, from the lower-cased name alone
ClaimedKey(lname) ==
  SILVER_PREFIX \o (IF InExpectedFiles(lname) THEN ExpectedFilesAt(lname)
                    ELSE Replace(lname, DotCsv, UnderParquet))

\* C10: a file's key is the claimed function of its lower-cased name, and
\* when a file has just been written after an earlier file of the run whose
\* name differs from its own in letter case at most, both have one key and
\* the written object holds the rows of the object written before it
\* together with the file's cleaned rows.
C10_KeyFromLowerCasedName ==
  /\ \A id \in FileIds : KeyOf(FileName(id)) = ClaimedKey(Lower(FileName(id)))
  /\ JustUploaded =>
       \A j \in 1..(LastEvent[2] - 1) :
         Lower(FileName(files[j])) = Lower(FileName(files[LastEvent[2]])) =>
           /\ KeyOf(FileName(files[j])) = KeyOf(FileName(files[LastEvent[2]]))
           /\ writes[j] = UploadedSlot
           /\ RowSet(s3[UploadedSlot].df) = RowSet(replaced.df) \cup RowSet(CleanedNew)

\* C7: each call of run_athena_query starts one query execution; the loop
\* ends only on SUCCEEDED, FAILED or CANCELLED; results are fetched only
\* after SUCCEEDED; after FAILED or CANCELLED the table is empty and the tab
\* shows its message for an empty table.
DashProtocol ==
  \A t \in Tabs :
    /\ started[t] = IF t < tab \/ (t = tab /\ d_pc # "call") THEN 1 ELSE 0
    /\ observed[t] \in {"NONE", "SUCCEEDED", "FAILED", "CANCELLED"}
    /\ (t = tab /\ d_pc \in {"check", "render", "end"}) => observed[t] # "NONE"
    /\ fetched[t] => observed[t] = "SUCCEEDED"
    /\ (t = tab /\ d_pc = "render" /\ observed[t] \in {"FAILED", "CANCELLED"}) => df_empty
    /\ shown[t] # "nothing" => observed[t] # "NONE"
    /\ (shown[t] # "nothing" /\ observed[t] \in {"FAILED", "CANCELLED"})
         => shown[t] = (IF t = 3 THEN "info" ELSE "warning")

\* the script has run to its end: every tab issued its query and showed
\* something
DashFinished ==
  /\ d_pc = "end"
  /\ \A t \in Tabs : started[t] = 1 /\ shown[t] # "nothing"

\* C7, with Athena bringing every query execution to a terminal state: the
\* protocol holds throughout, every call that polls returns, and the script
\* reaches its end with all three queries issued whatever the outcome of the
\* earlier ones.
C7_QueryProtocol ==
  /\ []DashProtocol
  /\ (d_pc = "poll") ~> (d_pc = "check")
  /\ <>DashFinished

\* C7 witness: the script has ended after a failed first query and a
\* cancelled second one, and the third tab shows data.
C7_Witness ==
  /\ d_pc = "end"
  /\ observed[1] = "FAILED" /\ shown[1] = "warning"
  /\ observed[2] = "CANCELLED" /\ shown[2] = "warning"
  /\ observed[3] = "SUCCEEDED" /\ shown[3] = "data"

\* what the claim says a missing cell of column c is replaced by
ClaimedFill(df, c) ==
  LET col == Column(df, c)
  IN  IF df.dtypes[c] = "num" THEN Median(col)
      ELSE IF \E i \in 1..Len(col) : NotNull(col[i]) THEN Mode(col)[1]
      ELSE Str("Unknown")

\* C8: the table clean_dataframe returns has no missing cell, and for every
\* missing cell of the input a returned row holds, in that column, the
\* column's median (numeric), its most frequent value or "Unknown".
C8_NoMissingCell ==
  c_pc = "returned" =>
    /\ \A i \in 1..Len(c_out.rows) : \A c \in 1..NumCols(c_out) : ~IsNull(c_out.rows[i][c])
    /\ \A i \in 1..Len(c_df.rows) : \A c \in 1..NumCols(c_df) :
         IsNull(c_df.rows[i][c])
           => \E j \in 1..Len(c_out.rows) : c_out.rows[j][c] = ClaimedFill(c_df, c)

=============================================================================
